---- MODULE Spec2Model ----
(***************************************************************************)
(* Model of bitops.py: logical and arithmetic operations on big-endian     *)
(* bit vectors (sequences of 0/1).  Every operation is a pure function;    *)
(* the state machine draws a call (operation, operands, shift amount) in   *)
(* Init and one action per operation applies it and records what the call  *)
(* returned or raised.                                                     *)
(***************************************************************************)
EXTENDS Integers, Sequences, FiniteSets

\* ---- bounds of the model ----
MaxLen == 3
MaxArgs == 3
MaxShift == 4

VARIABLES pc, op, args, shift, result

vars == <<pc, op, args, shift, result>>

\* ---- outcomes of a call: a returned tuple or a raised exception ----
\* kind "arity" is the TypeError of _ensure_min_arg_count, "length" the
\* TypeError of _ensure_same_arg_length, "shift" the ValueError of the shifts,
\* "assert" the AssertionError of _add_two_values.
\* fn is the function name the message prints (_parent_function_name).

NoResult ==
  [status |-> "none", value |-> <<>>, fn |-> "", required |-> 0,
   given |-> 0, lengths |-> <<>>]

Ok(v) ==
  [status |-> "ok", value |-> v, fn |-> "", required |-> 0,
   given |-> 0, lengths |-> <<>>]

ArityError(name, min_count, count) ==
  [status |-> "arity", value |-> <<>>, fn |-> name, required |-> min_count,
   given |-> count, lengths |-> <<>>]

LengthError(name, l) ==
  [status |-> "length", value |-> <<>>, fn |-> name, required |-> 0,
   given |-> 0, lengths |-> l]

ShiftError(name, s) ==
  [status |-> "shift", value |-> <<>>, fn |-> name, required |-> 0,
   given |-> s, lengths |-> <<>>]

AssertionError(name, l) ==
  [status |-> "assert", value |-> <<>>, fn |-> name, required |-> 0,
   given |-> 0, lengths |-> l]

\* ---- Python list primitives ----
\* [x] * n : the empty list when n <= 0
Repeat(x, n) == [i \in 1..n |-> x]

\* seq[lo:] and seq[:hi] for non-negative lo, hi (clipped to the length)
SliceFrom(s, lo) ==
  IF lo >= Len(s) THEN <<>> ELSE [i \in 1..(Len(s) - lo) |-> s[i + lo]]

SliceTo(s, hi) ==
  IF hi >= Len(s) THEN s ELSE [i \in 1..hi |-> s[i]]

\* ---- internal utilities ----
_one(length) == Repeat(0, length - 1) \o <<1>>

_ensure_min_arg_count(min_count, a) == Len(a) >= min_count

\* ascending enumeration of a finite set of integers
RECURSIVE SortedSeq(_)
SortedSeq(S) ==
  IF S = {} THEN <<>>
  ELSE LET m == CHOOSE x \in S : \A y \in S : x <= y
       IN  <<m>> \o SortedSeq(S \ {m})

\* variant: the distinct lengths, ascending
SortedDistinctLengths(a) == SortedSeq({Len(a[i]) : i \in 1..Len(a)})

\* l = [len(arg) for arg in args]
ArgLengths(a) == [i \in 1..Len(a) |-> Len(a[i])]

\* s = set(l); len(s) == 1
_ensure_same_arg_length(a) ==
  LET l == ArgLengths(a)
      s == {l[i] : i \in DOMAIN l}
  IN  Cardinality(s) = 1

\* the two validation calls every variadic operator starts with
Validate(name, a) ==
  IF ~_ensure_min_arg_count(2, a) THEN ArityError(name, 2, Len(a))
  ELSE IF ~_ensure_same_arg_length(a) THEN LengthError(name, ArgLengths(a))
  ELSE Ok(<<>>)

\* ---- basic operations ----
\* x & y and x | y on bits
BitAnd(x, y) == IF x = 1 /\ y = 1 THEN 1 ELSE 0

BitOr(x, y) == IF x = 1 \/ y = 1 THEN 1 ELSE 0

\* for arg in args: accumulator = [accumulator[i] & arg[i] ...]
RECURSIVE AndLoop(_, _, _)
AndLoop(accumulator, a, k) ==
  IF k > Len(a) THEN accumulator
  ELSE AndLoop([i \in 1..Len(a[k]) |-> BitAnd(accumulator[i], a[k][i])],
               a, k + 1)

op_and(a) ==
  LET v == Validate("op_and", a) IN
  IF v.status # "ok" THEN v
  ELSE Ok(AndLoop(Repeat(1, Len(a[1])), a, 1))

RECURSIVE OrLoop(_, _, _)
OrLoop(accumulator, a, k) ==
  IF k > Len(a) THEN accumulator
  ELSE OrLoop([i \in 1..Len(a[k]) |-> BitOr(accumulator[i], a[k][i])],
              a, k + 1)

op_or(a) ==
  LET v == Validate("op_or", a) IN
  IF v.status # "ok" THEN v
  ELSE Ok(OrLoop(Repeat(0, Len(a[1])), a, 1))

\* for arg in args: counter = [counter[i] + arg[i] ...]
RECURSIVE CountLoop(_, _, _)
CountLoop(counter, a, k) ==
  IF k > Len(a) THEN counter
  ELSE CountLoop([i \in 1..Len(a[k]) |-> counter[i] + a[k][i]], a, k + 1)

\* variant: the counter reduced to its parity
op_xor_parity(a) ==
  LET v == Validate("op_xor", a) IN
  IF v.status # "ok" THEN v
  ELSE LET counter == CountLoop(Repeat(0, Len(a[1])), a, 1) IN
       Ok([i \in 1..Len(counter) |-> counter[i] % 2])

op_xor(a) ==
  LET v == Validate("op_xor", a) IN
  IF v.status # "ok" THEN v
  ELSE LET counter == CountLoop(Repeat(0, Len(a[1])), a, 1) IN
       Ok([i \in 1..Len(counter) |-> IF counter[i] = 1 THEN 1 ELSE 0])

op_neg(bits) == Ok([i \in 1..Len(bits) |-> (bits[i] + 1) % 2])

\* ---- shifts ----
\* variant: the bits shifted out on the left come back on the right
LeftRotate(fill, s, bits) ==
  LET length == Len(bits)
  IN  IF length = 0 THEN bits
      ELSE [i \in 1..length |-> bits[((i - 1 + s) % length) + 1]]

\* accumulator[:retainer_length] = bits[shift:]
LeftShift(fill, s, bits) ==
  LET length == Len(bits)
      retainer_length == IF length - s > 0 THEN length - s ELSE 0
      accumulator == Repeat(fill, Len(bits))
  IN  SliceFrom(bits, s) \o SliceFrom(accumulator, retainer_length)

\* accumulator[shift:] = bits[:retainer_length]
RightShift(fill, s, bits) ==
  LET length == Len(bits)
      retainer_length == IF length - s > 0 THEN length - s ELSE 0
      accumulator == Repeat(fill, Len(bits))
  IN  SliceTo(accumulator, s) \o SliceTo(bits, retainer_length)

op_ls0(s, bits) ==
  IF s < 1 THEN ShiftError("op_ls0", s) ELSE Ok(LeftShift(0, s, bits))

op_ls1(s, bits) ==
  IF s < 1 THEN ShiftError("op_ls1", s) ELSE Ok(LeftShift(1, s, bits))

op_rs0(s, bits) ==
  IF s < 1 THEN ShiftError("op_rs0", s) ELSE Ok(RightShift(0, s, bits))

op_rs1(s, bits) ==
  IF s < 1 THEN ShiftError("op_rs1", s) ELSE Ok(RightShift(1, s, bits))

\* ---- math operations ----
\* for i in range(len(a)): index = -(i+1); total = a[index]+b[index]+carry
RECURSIVE AddLoop(_, _, _, _, _)
AddLoop(a, b, i, carry, out) ==
  IF i >= Len(a) THEN out
  ELSE LET total == a[Len(a) - i] + b[Len(b) - i] + carry IN
       AddLoop(a, b, i + 1, IF total > 1 THEN 1 ELSE 0,
               <<total % 2>> \o out)

\* variant: the carry is never propagated
_add_two_values_nocarry(a, b) ==
  IF Len(a) # Len(b)
  THEN AssertionError("_add_two_values", <<Len(a), Len(b)>>)
  ELSE Ok([i \in 1..Len(a) |-> (a[i] + b[i]) % 2])

\* assert len(a) == len(b), then the carry loop
_add_two_values(a, b) ==
  IF Len(a) # Len(b)
  THEN AssertionError("_add_two_values", <<Len(a), Len(b)>>)
  ELSE Ok(AddLoop(a, b, 0, 0, <<>>))

\* for addend in args: accumulator = _add_two_values(accumulator, addend);
\* an AssertionError of _add_two_values propagates out of op_add
RECURSIVE SumLoop(_, _, _)
SumLoop(accumulator, a, k) ==
  IF k > Len(a) THEN Ok(accumulator)
  ELSE LET next == _add_two_values(accumulator, a[k]) IN
       IF next.status # "ok" THEN next
       ELSE SumLoop(next.value, a, k + 1)

\* variant: the length check runs before the arity check
op_add_length_first(a) ==
  IF ~_ensure_same_arg_length(a) THEN LengthError("op_add", ArgLengths(a))
  ELSE IF ~_ensure_min_arg_count(2, a) THEN ArityError("op_add", 2, Len(a))
  ELSE SumLoop(Repeat(0, Len(a[1])), a, 1)

op_add(a) ==
  LET v == Validate("op_add", a) IN
  IF v.status # "ok" THEN v
  ELSE SumLoop(Repeat(0, Len(a[1])), a, 1)

\* for subtrahend in subtrahends: ... ; an exception of an inner op_add
\* propagates out of op_sub
RECURSIVE SubLoop(_, _)
SubLoop(accumulator, subtrahends) ==
  IF subtrahends = <<>> THEN Ok(accumulator)
  ELSE LET inverse == op_neg(Head(subtrahends)).value
           addend == op_add(<<inverse, _one(Len(inverse))>>)
       IN  IF addend.status # "ok" THEN addend
           ELSE LET next == op_add(<<accumulator, addend.value>>) IN
                IF next.status # "ok" THEN next
                ELSE SubLoop(next.value, Tail(subtrahends))

\* variant: one operand is enough
op_sub_min1(a) ==
  IF ~_ensure_min_arg_count(1, a) THEN ArityError("op_sub", 1, Len(a))
  ELSE IF ~_ensure_same_arg_length(a) THEN LengthError("op_sub", ArgLengths(a))
  ELSE IF Tail(a) = <<>> THEN Ok(a[1])
  ELSE SubLoop(a[1], Tail(a))

\* variant: the subtrahend is added as its complement, without the plus one
RECURSIVE SubLoopOnesComplement(_, _)
SubLoopOnesComplement(accumulator, subtrahends) ==
  IF subtrahends = <<>> THEN Ok(accumulator)
  ELSE LET next == op_add(<<accumulator, op_neg(Head(subtrahends)).value>>) IN
       IF next.status # "ok" THEN next
       ELSE SubLoopOnesComplement(next.value, Tail(subtrahends))

op_sub_ones_complement(a) ==
  LET v == Validate("op_sub", a) IN
  IF v.status # "ok" THEN v
  ELSE SubLoopOnesComplement(a[1], Tail(a))

op_sub(a) ==
  LET v == Validate("op_sub", a) IN
  IF v.status # "ok" THEN v
  ELSE IF Tail(a) = <<>> THEN Ok(a[1])
  ELSE SubLoop(a[1], Tail(a))

op_inc(bits) == op_add(<<bits, _one(Len(bits))>>)

\* variant: adds the unit vector instead of subtracting it
op_dec_adds(bits) == op_add(<<bits, _one(Len(bits))>>)

op_dec(bits) == op_sub(<<bits, _one(Len(bits))>>)

\* ---- the calls the model makes ----
Bit == {0, 1}

BitVectors == UNION {[1..n -> Bit] : n \in 0..MaxLen}

ArgLists == UNION {[1..n -> BitVectors] : n \in 0..MaxArgs}

Variadic == {"op_and", "op_or", "op_xor", "op_add", "op_sub"}

Unary == {"op_neg", "op_inc", "op_dec"}

Shifts == {"op_ls0", "op_ls1", "op_rs0", "op_rs1"}

Init ==
  /\ pc = "call"
  /\ result = NoResult
  /\ \/ op \in Variadic /\ args \in ArgLists /\ shift = 0
     \/ op \in Unary /\ args \in [1..1 -> BitVectors] /\ shift = 0
     \/ op \in Shifts /\ args \in [1..1 -> BitVectors]
                      /\ shift \in (-1)..MaxShift

Return(name, r) ==
  /\ pc = "call"
  /\ op = name
  /\ result' = r
  /\ pc' = "done"
  /\ UNCHANGED <<op, args, shift>>

CallAnd == Return("op_and", op_and(args))

CallOr == Return("op_or", op_or(args))

CallXor == Return("op_xor", op_xor(args))

CallNeg == Return("op_neg", op_neg(args[1]))

CallLs0 == Return("op_ls0", op_ls0(shift, args[1]))

CallLs1 == Return("op_ls1", op_ls1(shift, args[1]))

CallRs0 == Return("op_rs0", op_rs0(shift, args[1]))

CallRs1 == Return("op_rs1", op_rs1(shift, args[1]))

CallAdd == Return("op_add", op_add(args))

CallSub == Return("op_sub", op_sub(args))

CallInc == Return("op_inc", op_inc(args[1]))

CallDec == Return("op_dec", op_dec(args[1]))

Next ==
  \/ CallAnd
  \/ CallOr
  \/ CallXor
  \/ CallNeg
  \/ CallLs0
  \/ CallLs1
  \/ CallRs0
  \/ CallRs1
  \/ CallAdd
  \/ CallSub
  \/ CallInc
  \/ CallDec

Spec == Init /\ [][Next]_vars

\* ---- vocabulary of the properties ----
Done(name) == pc = "done" /\ op = name

\* the operands are at least two and share one length
WellFormed == Len(args) >= 2 /\ \A i \in 1..Len(args) : Len(args[i]) = Len(args[1])

RECURSIVE Pow2(_)
Pow2(n) == IF n <= 0 THEN 1 ELSE 2 * Pow2(n - 1)

\* big-endian value of a bit vector
RECURSIVE Value(_)
Value(v) ==
  IF v = <<>> THEN 0
  ELSE 2 * Value(SubSeq(v, 1, Len(v) - 1)) + v[Len(v)]

RECURSIVE SumValues(_)
SumValues(a) == IF a = <<>> THEN 0 ELSE Value(Head(a)) + SumValues(Tail(a))

\* number of operands whose bit i is 1
OnesAt(i) == Cardinality({k \in 1..Len(args) : args[k][i] = 1})

TypeOK ==
  /\ pc \in {"call", "done"}
  /\ op \in Variadic \cup Unary \cup Shifts
  /\ result.status \in {"none", "ok", "arity", "length", "shift", "assert"}
  /\ pc = "call" <=> result.status = "none"

\* ---- properties ----

\* C1: op_add on n >= 2 operands of one length L returns a vector of length
\* L whose big-endian value is the sum of the operands' values modulo 2^L,
\* and op_add(a, b) equals op_add(b, a).
C1_AddWraps ==
  (Done("op_add") /\ WellFormed) =>
    LET L == Len(args[1]) IN
    /\ result.status = "ok"
    /\ Len(result.value) = L
    /\ Value(result.value) = SumValues(args) % Pow2(L)
    /\ Len(args) = 2 => result = op_add(<<args[2], args[1]>>)

\* three operands whose sum overflows the width, with a carry chain
C1_Witness ==
  /\ Done("op_add")
  /\ args = <<(<<1, 1>>), (<<0, 1>>), (<<1, 1>>)>>
  /\ result = Ok(<<1, 1>>)

\* C2 as stated: op_xor sets output bit i exactly when an odd number of
\* operands have bit i set.
C2_XorParity ==
  (Done("op_xor") /\ WellFormed) =>
    /\ result.status = "ok"
    /\ Len(result.value) = Len(args[1])
    /\ \A i \in 1..Len(args[1]) :
         result.value[i] = 1 <=> OnesAt(i) % 2 = 1

\* C2 amended: op_xor sets output bit i exactly when exactly one operand has
\* bit i set (which is parity only for two operands); every other output bit
\* is 0 and the length is L.
C2_XorExactlyOne ==
  (Done("op_xor") /\ WellFormed) =>
    /\ result.status = "ok"
    /\ Len(result.value) = Len(args[1])
    /\ \A i \in 1..Len(args[1]) :
         /\ result.value[i] \in Bit
         /\ result.value[i] = 1 <=> OnesAt(i) = 1

\* three operands: a position set in all three gives 0, in one gives 1
C2_Witness ==
  /\ Done("op_xor")
  /\ args = <<(<<1, 0>>), (<<1, 1>>), (<<1, 0>>)>>
  /\ result = Ok(<<0, 1>>)

\* C3: for a, b of one length (the empty vector included), subtracting b
\* from op_add(a, b) returns normally and gives a back.
C3_SubUndoesAdd ==
  (Done("op_add") /\ WellFormed /\ Len(args) = 2) =>
    /\ result.status = "ok"
    /\ op_sub(<<result.value, args[2]>>) = Ok(args[1])

\* C4: every variadic operator checks the operand count, then the lengths,
\* before computing: fewer than 2 operands raise the arity error, 2 or more
\* operands of differing lengths raise the length error, 2 or more operands
\* of one length L >= 1 raise nothing.
C4_ValidationOrder ==
  (pc = "done" /\ op \in Variadic) =>
    /\ Len(args) < 2 => result.status = "arity" /\ result.fn = op
    /\ (Len(args) >= 2 /\ ~WellFormed) =>
         result.status = "length" /\ result.fn = op
    /\ (WellFormed /\ Len(args[1]) >= 1) => result.status = "ok"

\* no operand at all: the length check would fail too, the arity error wins
C4_Witness ==
  /\ Done("op_add")
  /\ args = <<>>
  /\ result.status = "arity"

\* C5 as stated: op_sub with a single operand returns that operand.
C5_SubSingleReturns ==
  (Done("op_sub") /\ Len(args) = 1) => result = Ok(args[1])

\* C5 amended: op_sub with a single operand raises the arity error (at least
\* 2 required, 1 given) and returns nothing.
C5_SubSingleRaises ==
  (Done("op_sub") /\ Len(args) = 1) =>
    result = ArityError("op_sub", 2, 1)

C5_Witness ==
  /\ Done("op_sub")
  /\ args = <<(<<1, 0>>)>>
  /\ result.status = "arity"

\* what a shift by s >= 1 must give at position i (1-based)
ShiftedLeft(fill, s, v) ==
  [i \in 1..Len(v) |-> IF i + s <= Len(v) THEN v[i + s] ELSE fill]

ShiftedRight(fill, s, v) ==
  [i \in 1..Len(v) |-> IF i - s >= 1 THEN v[i - s] ELSE fill]

\* C6: a shift by s >= 1 keeps the length; a left shift is v[s:] followed by
\* fill bits, a right shift is fill bits followed by v[0:L-s]; with s >= L
\* the result is L fill bits; nothing wraps around.
C6_ShiftContract ==
  (pc = "done" /\ op \in Shifts /\ shift >= 1) =>
    LET v == args[1]
        fill == IF op \in {"op_ls0", "op_rs0"} THEN 0 ELSE 1
    IN
    /\ result.status = "ok"
    /\ Len(result.value) = Len(v)
    /\ op \in {"op_ls0", "op_ls1"} => result.value = ShiftedLeft(fill, shift, v)
    /\ op \in {"op_rs0", "op_rs1"} => result.value = ShiftedRight(fill, shift, v)
    /\ shift >= Len(v) => result.value = Repeat(fill, Len(v))

\* a set bit is shifted out on the left and does not come back
C6_Witness ==
  /\ Done("op_ls0")
  /\ shift = 2
  /\ args = <<(<<1, 0, 1>>)>>
  /\ result = Ok(<<1, 0, 0>>)

\* C7: op_sub(a, b1..bn), all of one length L >= 1, returns a vector of
\* length L whose value is value(a) minus the sum of the bi, modulo 2^L.
C7_SubValue ==
  (Done("op_sub") /\ WellFormed /\ Len(args[1]) >= 1) =>
    LET L == Len(args[1])
        rest == SumValues(Tail(args))
    IN
    /\ result.status = "ok"
    /\ Len(result.value) = L
    /\ Value(result.value) =
         (Value(args[1]) + Len(args) * Pow2(L) - rest) % Pow2(L)

\* two subtrahends whose sum exceeds the minuend: 1 - (2 + 3) = 0 mod 4
C7_Witness ==
  /\ Done("op_sub")
  /\ args = <<(<<0, 1>>), (<<1, 0>>), (<<1, 1>>)>>
  /\ result = Ok(<<0, 0>>)

\* C8: for non-empty a, op_inc(op_dec(a)) = a; op_dec of all zeros is all
\* ones; op_inc of all zeros has only its last bit set.
C8_IncUndoesDec ==
  /\ (Done("op_dec") /\ Len(args[1]) >= 1) =>
       /\ result.status = "ok"
       /\ op_inc(result.value) = Ok(args[1])
       /\ args[1] = Repeat(0, Len(args[1])) =>
            result.value = Repeat(1, Len(args[1]))
  /\ (Done("op_inc") /\ Len(args[1]) >= 1
        /\ args[1] = Repeat(0, Len(args[1]))) =>
       result = Ok(Repeat(0, Len(args[1]) - 1) \o <<1>>)

\* the wraparound case
C8_Witness ==
  /\ Done("op_dec")
  /\ args = <<(<<0, 0>>)>>
  /\ result = Ok(<<1, 1>>)
  /\ op_inc(result.value) = Ok(<<0, 0>>)

\* C9 as stated: the length error reports the distinct operand lengths, each
\* once, ascending.
C9_LengthsSortedSet ==
  (pc = "done" /\ op \in Variadic /\ result.status = "length"
     /\ result.fn = op) =>
    result.lengths = SortedSeq({Len(args[i]) : i \in 1..Len(args)})

\* C9 amended: the length error reports the length of every operand, one
\* entry per operand in argument order, duplicates kept and unsorted.
C9_LengthsInOrder ==
  (pc = "done" /\ op \in Variadic /\ result.status = "length"
     /\ result.fn = op) =>
    /\ Len(result.lengths) = Len(args)
    /\ \A i \in 1..Len(args) : result.lengths[i] = Len(args[i])

\* lengths 3, 2, 3 are reported as 3, 2, 3
C9_Witness ==
  /\ pc = "done"
  /\ op \in Variadic
  /\ result.status = "length"
  /\ Len(args) = 3
  /\ result.lengths = <<3, 2, 3>>

\* C10: for every operand length L >= 0 the unit vector has length L, so
\* op_inc, op_dec and two-operand op_sub on equal-length operands never
\* raise the length error and return a vector of length L.
C10_UnitVectorLength ==
  /\ (pc = "done" /\ op \in {"op_inc", "op_dec"}) =>
       /\ Len(_one(Len(args[1]))) = Len(args[1])
       /\ result.status = "ok"
       /\ Len(result.value) = Len(args[1])
  /\ (Done("op_sub") /\ WellFormed /\ Len(args) = 2) =>
       /\ Len(_one(Len(args[2]))) = Len(args[2])
       /\ result.status = "ok"
       /\ Len(result.value) = Len(args[1])

====
